---- MODULE Spec2Model ----
(***************************************************************************)
(* Blueprint detection backend: the four Lambda handlers (upload, run      *)
(* trigger, status query, results query) over one S3 bucket, and the       *)
(* retrying SageMaker invoker used by the run trigger.                     *)
(*                                                                         *)
(* Every S3 call and every endpoint call is one atomic step; a handler     *)
(* that makes several writes is a sequence of steps, so that readers and   *)
(* faults can fall between two writes.  An S3 call may raise a ClientError *)
(* (throttling, 5xx, permissions) instead of taking effect.                *)
(***************************************************************************)
EXTENDS Integers, Sequences, FiniteSets, TLC

VARIABLES
    MAX_RETRIES,    \* inference_handler.py:14, read from SAGEMAKER_MAX_RETRIES
    RETRY_DELAY,    \* inference_handler.py:15, read from SAGEMAKER_RETRY_DELAY
    store,          \* the bucket: key -> document, NoDoc where no object exists
    ipc,            \* upload handler: position of the intake of each job
    ireq,           \* upload handler: the body of the last intake request
    iresp,          \* upload handler: response of the last intake of each job
    pc,             \* run trigger: position of the invocation for each job
    attempt,        \* invoker: the loop variable `attempt`
    body,           \* run trigger: the request body of the invocation in progress
    payload,        \* run trigger: the request payload built for the endpoint
    result,         \* run trigger: what invoke_sagemaker_with_retry returned
    exc,            \* run trigger: the exception being handled
    resp,           \* run trigger: response of the last finished invocation
    runs,           \* number of run-trigger invocations started per job
    trace,          \* invoker: endpoint calls and sleeps of the call in progress
    hist,           \* history: <<stage, progress>> of the Status writes of a job,
                    \* from the one in force when its latest run began
    runw,           \* history: the S3 writes of the latest run-trigger invocation
    seen,           \* history: per id, the last two responses a status reader
                    \* got since the latest run of the job began
    rresp           \* results query: last response, per queried id

vars == <<MAX_RETRIES, RETRY_DELAY, store, ipc, ireq, iresp, pc, attempt, body,
          payload, result, exc, resp, runs, trace, hist, runw, seen, rresp>>

----------------------------------------------------------------------------
(* Bounds of the exploration *)

MaxRetriesCfg == 4      \* largest max_retries explored for the invoker alone
MaxRetriesRun == 2      \* largest SAGEMAKER_MAX_RETRIES explored for the pipeline
MaxRuns == 2            \* pipeline runs per job
MaxRunsPolled == 1      \* pipeline runs per job while both queries are polled

----------------------------------------------------------------------------
(* Identifiers and keys.  A string is a sequence of symbols ordered as     *)
(* their character codes are; identifiers are built from symbols above     *)
(* the path separator.                                                     *)

SL == 0                 \* "/"
S1 == <<2>>             \* a session id
J1 == <<3, 4>>          \* a generated blueprint id (fixed length)

JobRefs == { <<S1, J1>> }
QueryIds == { J1 }

UploadsPrefix == <<1, SL>>              \* "uploads/"
DocTypes == {"metadata", "original", "results", "status"}
DocSym(d) ==                            \* the object's file name, in key order
    CASE d = "metadata" -> 11
      [] d = "original" -> 12
      [] d = "results"  -> 13
      [] d = "status"   -> 14

Keys == { <<r[1], r[2], d>> : r \in JobRefs, d \in DocTypes }
Key(r, d) == <<r[1], r[2], d>>
KeyStr(k) == UploadsPrefix \o k[1] \o <<SL>> \o k[2] \o <<SL>> \o <<DocSym(k[3])>>

NoDoc == [kind |-> "none"]
NoKey == <<>>

\* the source artifact, as the client puts it through the presigned URL
ArtifactDoc == [kind |-> "original"]

----------------------------------------------------------------------------
(* S3 listing and the lookup of a job's document by blueprint id alone *)

MaxKeys == 100          \* MaxKeys of list_objects_v2


\* a < b in the order S3 lists keys (UTF-8 binary order of the key string)
RECURSIVE StrLess(_, _)
StrLess(a, b) ==
    IF b = <<>> THEN FALSE
    ELSE IF a = <<>> THEN TRUE
    ELSE IF Head(a) # Head(b) THEN Head(a) < Head(b)
    ELSE StrLess(Tail(a), Tail(b))

\* Python's `sub in text`
Contains(text, sub) ==
    \E i \in 1..(Len(text) - Len(sub) + 1) : SubSeq(text, i, i + Len(sub) - 1) = sub

\* Python's text.endswith('<doc>.json')
EndsWith(k, d) == KeyStr(k)[Len(KeyStr(k))] = DocSym(d)

\* the keys under 'uploads/' that hold an object
ObjectKeys(st) == {k \in DOMAIN st : st[k] # NoDoc}

\* the number of the keys of `keys` that come before key k in the listing
ListingRank(keys, k) ==
    Cardinality({k2 \in keys : StrLess(KeyStr(k2), KeyStr(k))})

\* response.get('Contents', []) of list_objects_v2(Prefix='uploads/',
\* MaxKeys=100): one page, the first MaxKeys keys in key order; the handlers
\* ask for no further page
list_objects_v2(st) ==
    LET keys == ObjectKeys(st) IN {k \in keys : ListingRank(keys, k) < MaxKeys}

\* the first listed key that contains the id and ends with the document name
FindKey(st, id, d) ==
    LET keys == ObjectKeys(st)
        hits == {k \in keys :
                    /\ EndsWith(k, d)
                    /\ Contains(KeyStr(k), id)
                    /\ ListingRank(keys, k) < MaxKeys}
    IN  IF hits = {} THEN NoKey
        ELSE CHOOSE k \in hits : \A h \in hits \ {k} : StrLess(KeyStr(k), KeyStr(h))

\* Objects of other clients in the same bucket.  A session id is whatever
\* the client sends (upload_handler.py:24), so it may contain the blueprint
\* id of another job.
S0 == <<1>> \o J1       \* a session id that contains the blueprint id J1
J0 == <<5, 6>>          \* the blueprint id of the job in session S0
SF == <<1>>             \* a session with many uploads
FillerIds == { <<7, 100 + i>> : i \in 1..MaxKeys }
ColliderKeys == { <<S0, J0, d>> : d \in {"metadata", "status", "results"} }
FillerKeys == { <<SF, j, "original">> : j \in FillerIds }
OtherKeys == ColliderKeys \cup FillerKeys

----------------------------------------------------------------------------
(* Status documents: the dict literals the handlers write *)

Stages == {"upload", "preprocessing", "inference", "postprocess", "complete", "failed"}

StageStatus(stage) ==
    CASE stage = "complete" -> "completed"
      [] stage = "failed"   -> "failed"
      [] OTHER              -> "processing"

StageProgress(stage) ==
    CASE stage = "upload"        -> 10
      [] stage = "preprocessing" -> 25
      [] stage = "inference"     -> 50
      [] stage = "postprocess"   -> 75
      [] stage = "complete"      -> 100
      [] stage = "failed"        -> 0

StageEta(stage) ==
    CASE stage = "upload"        -> 20
      [] stage = "preprocessing" -> 15
      [] stage = "inference"     -> 10
      [] stage = "postprocess"   -> 5
      [] stage = "complete"      -> 0
      [] stage = "failed"        -> 0

\* message: the fixed text, followed by str(e) in the two failure documents
StageMessage(stage, detail) ==
    CASE stage = "upload"        -> <<"Blueprint uploaded, preparing for processing...">>
      [] stage = "preprocessing" -> <<"Preparing image for inference...">>
      [] stage = "inference"     -> <<"Running AI model inference...">>
      [] stage = "postprocess"   -> <<"Finalizing detection results...">>
      [] stage = "complete"      -> <<"Processing completed successfully">>
      [] stage = "failed"        -> detail

StatusDoc(bid, stage, detail) ==
    [kind |-> "status",
     blueprintId |-> bid,
     status |-> StageStatus(stage),
     stage |-> stage,
     progress |-> StageProgress(stage),
     estimatedTimeRemaining |-> StageEta(stage),
     message |-> StageMessage(stage, detail)]

----------------------------------------------------------------------------
(* The SageMaker endpoint and the retrying invoker *)

\* str(e) of an endpoint failure, as the words it is made of: the messages
\* explored for the invoker alone, and those explored in the pipeline
InvokerMessages ==
    { <<"ServiceUnavailable">>, <<"ThrottlingException">>, <<"InternalFailure">>,
      <<"Read", "Timeout">>, <<"TIMEOUT">>, <<"serviceunavailable">>,
      <<"throttlingexception">>, <<"internalfailure">>, <<"ValidationError">> }

ErrorMessages ==
    { <<"ServiceUnavailable">>, <<"Read", "Timeout">>, <<"ValidationError">> }

\* str.lower() of one word
Lower(w) ==
    CASE w = "Timeout"            -> "timeout"
      [] w = "TIMEOUT"            -> "timeout"
      [] w = "ServiceUnavailable" -> "serviceunavailable"
      [] w = "ThrottlingException" -> "throttlingexception"
      [] w = "InternalFailure"    -> "internalfailure"
      [] w = "ValidationError"    -> "validationerror"
      [] w = "Read"               -> "read"
      [] OTHER                    -> w

HasWord(msg, w) == \E i \in 1..Len(msg) : msg[i] = w
HasWordLower(msg, w) == \E i \in 1..Len(msg) : Lower(msg[i]) = w

\* every marker looked for in the lower-cased message
is_retryable_ignoring_case(error_msg) ==
    \/ HasWordLower(error_msg, "serviceunavailable")
    \/ HasWordLower(error_msg, "throttlingexception")
    \/ HasWordLower(error_msg, "internalfailure")
    \/ HasWordLower(error_msg, "timeout")

\* inference_handler.py:54-59
is_retryable(error_msg) ==
    \/ HasWord(error_msg, "ServiceUnavailable")
    \/ HasWord(error_msg, "ThrottlingException")
    \/ HasWord(error_msg, "InternalFailure")
    \/ HasWordLower(error_msg, "timeout")

RECURSIVE Pow2(_)
Pow2(n) == IF n = 0 THEN 1 ELSE 2 * Pow2(n - 1)

\* a linear backoff in place of the exponential one
backoff_delay_linear(base, att) == base * (att + 1)

\* inference_handler.py:63
backoff_delay(base, att) == base * Pow2(att)

\* without the except clause for ModelError: every failure is classified by
\* its message
on_failure_classifies_model_error(etype, error_msg, att, max_retries) ==
    IF att < max_retries - 1 /\ is_retryable(error_msg) THEN "sleep" ELSE "raise"

\* the attempt bound off by one: backs off after the last attempt as well
on_failure_sleeps_after_last(etype, error_msg, att, max_retries) ==
    IF etype = "ModelError" THEN "raise"
    ELSE IF att < max_retries /\ is_retryable(error_msg) THEN "sleep"
    ELSE "raise"

\* What the except clauses of the loop body do with a failed attempt:
\* "raise" re-raises to the caller, "sleep" backs off and goes round again.
on_failure(etype, error_msg, att, max_retries) ==
    IF etype = "ModelError" THEN "raise"
    ELSE IF att < max_retries - 1 /\ is_retryable(error_msg) THEN "sleep"
    ELSE "raise"

\* Results of predict_fn for the detection lists explored.  Confidences are
\* in hundredths; avgConfidence is the exact quotient sum/len as a pair.
Det(c, conf) == [class |-> c, confidence |-> conf]

\* a detection that carries no 'class', as the container behind
\* SAGEMAKER_ENDPOINT may return and inference_handler.py:198 provides for
Unlabelled(conf) == [confidence |-> conf]

DetectionLists ==
    { <<>>,
      << Det("wall", 90), Det("wall", 80), Det("door", 60) >>,
      << Det("room", 90), Unlabelled(85) >> }

RECURSIVE SumConf(_)
SumConf(ds) == IF ds = <<>> THEN 0 ELSE Head(ds).confidence + SumConf(Tail(ds))

predict_fn(ds) ==
    [detections |-> ds,
     totalRooms |-> Len(ds),
     avgConfidence |-> IF ds # <<>> THEN <<SumConf(ds), Len(ds)>> ELSE <<0, 1>>]

Responses == { predict_fn(ds) : ds \in DetectionLists }

None == [kind |-> "None"]
NoExc == [type |-> "none"]
Exc(t, m) == [type |-> t, msg |-> m]

\* the outcomes of one invoke_endpoint call, failing with one of `messages`
EndpointOutcomes(messages) ==
    { [out |-> "ok", body |-> b] : b \in Responses }
    \cup { [out |-> "ModelError", msg |-> m] : m \in messages }
    \cup { [out |-> "Exception", msg |-> m] : m \in messages }

\* inference.py:74-81: the container reads the artifact from S3 itself; when
\* there is no such object its get_object raises, and the endpoint call
\* cannot succeed
EndpointOutcomesFor(st, request, messages) ==
    { o \in EndpointOutcomes(messages) : o.out = "ok" => st[request.s3_uri] # NoDoc }

CallEvent(o) == [op |-> "call", outcome |-> o]
SleepEvent(d) == [op |-> "sleep", delay |-> d]

----------------------------------------------------------------------------
(* Result formatting of the run trigger *)

\* the quotient cut off after the second decimal
Round2_truncates(p) == p[1] \div p[2]

\* round(q, 2) of the quotient q = p[1]/p[2] given in hundredths, half to even
Round2(p) ==
    LET q == p[1] \div p[2]
        r == p[1] % p[2]
    IN  IF 2 * r > p[2] THEN q + 1
        ELSE IF 2 * r < p[2] THEN q
        ELSE IF q % 2 = 0 THEN q ELSE q + 1

\* detection.get('class', 'unknown')
ElementClass(det) == IF "class" \in DOMAIN det THEN det.class ELSE "unknown"

\* the detections without a class left out of the counts
class_counts_skips_unlabelled(ds) ==
    [c \in {ds[i].class : i \in {j \in 1..Len(ds) : "class" \in DOMAIN ds[j]}} |->
        Cardinality({i \in 1..Len(ds) : "class" \in DOMAIN ds[i] /\ ds[i].class = c})]

\* inference_handler.py:196-199
class_counts(ds) ==
    [c \in {ElementClass(ds[i]) : i \in 1..Len(ds)} |->
        Cardinality({i \in 1..Len(ds) : ElementClass(ds[i]) = c})]

\* inference_handler.py:202-216
formatted_results(bid, res) ==
    [kind |-> "results",
     blueprintId |-> bid,
     detections |-> res.detections,
     statistics |-> [totalDetections |-> Len(res.detections),
                     totalRooms |-> res.totalRooms,
                     avgConfidence |-> Round2(res.avgConfidence),
                     elementCounts |-> class_counts(res.detections)]]

----------------------------------------------------------------------------
(* Initial state: an empty bucket, no handler running, a configuration *)

DelayChoices == {1, 3}      \* SAGEMAKER_RETRY_DELAY values explored

NoRequest == [kind |-> "none"]      \* no intake request yet
NoResp == [statusCode |-> 0]
Response(code, content) == [statusCode |-> code, body |-> content]

\* everything but the configuration: an empty bucket and no handler running
InitJobs ==
    /\ store = [k \in Keys |-> NoDoc]
    /\ ipc = [r \in JobRefs |-> "idle"]
    /\ ireq = [r \in JobRefs |-> NoRequest]
    /\ iresp = [r \in JobRefs |-> NoResp]
    /\ pc = [r \in JobRefs |-> "idle"]
    /\ attempt = [r \in JobRefs |-> 0]
    /\ body = [r \in JobRefs |-> None]
    /\ payload = [r \in JobRefs |-> None]
    /\ result = [r \in JobRefs |-> None]
    /\ exc = [r \in JobRefs |-> NoExc]
    /\ resp = [r \in JobRefs |-> NoResp]
    /\ runs = [r \in JobRefs |-> 0]
    /\ trace = [r \in JobRefs |-> <<>>]
    /\ hist = [r \in JobRefs |-> <<>>]
    /\ runw = [r \in JobRefs |-> <<>>]
    /\ seen = [id \in QueryIds |-> <<>>]
    /\ rresp = [id \in QueryIds |-> NoResp]

Init ==
    /\ MAX_RETRIES \in 0..MaxRetriesRun
    /\ RETRY_DELAY = 1
    /\ InitJobs

cfgVars == <<MAX_RETRIES, RETRY_DELAY>>
intakeVars == <<ipc, ireq, iresp>>
runVars == <<pc, attempt, body, payload, result, exc, resp, runs, trace, runw>>
queryVars == <<seen, rresp>>

\* s3_client.put_object of a Status document, with its place in the history
\* the status document put under the metadata key
PutStatus_under_metadata_key(r, stage, detail) ==
    LET doc == StatusDoc(r[2], stage, detail) IN
    /\ store' = [store EXCEPT ![Key(r, "metadata")] = doc]
    /\ hist' = [hist EXCEPT ![r] = Append(@, <<doc.stage, doc.progress>>)]

\* an incremental patch: stage and progress set in the stored document,
\* its other fields left as they were
PutStatus_patches_fields(r, stage, detail) ==
    LET doc == StatusDoc(r[2], stage, detail)
        old == store[Key(r, "status")]
    IN  /\ store' = [store EXCEPT ![Key(r, "status")] =
                        IF old = NoDoc THEN doc
                        ELSE [old EXCEPT !.stage = doc.stage, !.progress = doc.progress]]
        /\ hist' = [hist EXCEPT ![r] = Append(@, <<doc.stage, doc.progress>>)]

\* the status key found by the listing lookup the query handlers use
PutStatus_by_blueprint_lookup(r, stage, detail) ==
    LET doc == StatusDoc(r[2], stage, detail)
        found == FindKey(store, r[2], "status")
    IN  /\ store' = [store EXCEPT ![IF found = NoKey THEN Key(r, "status") ELSE found] = doc]
        /\ hist' = [hist EXCEPT ![r] = Append(@, <<doc.stage, doc.progress>>)]

PutStatus(r, stage, detail) ==
    LET doc == StatusDoc(r[2], stage, detail) IN
    /\ store' = [store EXCEPT ![Key(r, "status")] = doc]
    /\ hist' = [hist EXCEPT ![r] = Append(@, <<doc.stage, doc.progress>>)]

\* entries of runw
StatusWrite(stage) == <<"status", stage, StageProgress(stage)>>
ResultsWrite == <<"results">>

----------------------------------------------------------------------------
(* Intake: upload_handler.lambda_handler *)

MaxSize == 10485760         \* max_size = 10 * 1024 * 1024
\* a request field: body.get(name), with Python's truthiness of the value
Missing == [present |-> FALSE, truthy |-> FALSE]
Str(s) == [present |-> TRUE, truthy |-> s # <<>>, v |-> s]
Num(n) == [present |-> TRUE, truthy |-> n # 0, v |-> n]

AllowedTypes == { <<"image/png">>, <<"image/jpeg">>, <<"image/jpg">>, <<"application/pdf">> }

IntakeRequest_(name, type, size) == [fileName |-> name, fileType |-> type, fileSize |-> size]

\* the request bodies explored; the session id is the job reference's
IntakeRequests ==
    { IntakeRequest_(Str(<<"plan", "png">>), Str(<<"image/png">>), Num(1024)),
      IntakeRequest_(Str(<<"plan", "png">>), Str(<<"image/png">>), Num(MaxSize)),
      IntakeRequest_(Str(<<"plan", "png">>), Str(<<"image/png">>), Num(MaxSize + 1)),
      IntakeRequest_(Str(<<"plan", "png">>), Str(<<"text/plain">>), Num(1024)),
      IntakeRequest_(Str(<<"plan", "png">>), Str(<<"image/png">>), Num(0)),
      IntakeRequest_(Missing, Str(<<"image/png">>), Num(1024)) }

\* a request accepted by the validation
Accepted == ""

\* upload_handler.py:26-67: the error of the 400 response, Accepted when
\* the request passes
Validate(req, session_id) ==
    IF ~(req.fileName.truthy /\ req.fileType.truthy /\ req.fileSize.truthy
         /\ session_id # <<>>)
    THEN "Missing required fields: fileName, fileType, fileSize, sessionId"
    ELSE IF req.fileType.v \notin AllowedTypes
    THEN "Invalid file type. Only PNG, JPG, and PDF are allowed."
    ELSE IF req.fileSize.v > MaxSize
    THEN "File size exceeds 10MB limit."
    ELSE Accepted

\* file_name.split('.')[-1]
FileExtension(file_name) == file_name[Len(file_name)]

MetadataDoc(r, req) ==
    [kind |-> "metadata",
     blueprintId |-> r[2],
     sessionId |-> r[1],
     fileName |-> req.fileName.v,
     fileSize |-> req.fileSize.v,
     format |-> FileExtension(req.fileName.v),
     s3Key |-> <<r[1], r[2], "original">>]

\* the metadata object written before the request is validated
IntakeRequest_writes_before_validating(r) ==
    /\ ipc[r] = "idle"
    /\ store[Key(r, "metadata")] = NoDoc
    /\ \E req \in IntakeRequests :
          /\ ireq' = [ireq EXCEPT ![r] = req]
          /\ store' = [store EXCEPT ![Key(r, "metadata")] =
                         [kind |-> "metadata", blueprintId |-> r[2], sessionId |-> r[1],
                          s3Key |-> <<r[1], r[2], "original">>]]
          /\ IF Validate(req, r[1]) # Accepted
             THEN /\ iresp' = [iresp EXCEPT ![r] =
                                 Response(400, [error |-> Validate(req, r[1])])]
                  /\ UNCHANGED ipc
             ELSE /\ ipc' = [ipc EXCEPT ![r] = "put_status"]
                  /\ iresp' = [iresp EXCEPT ![r] = NoResp]
    /\ UNCHANGED <<cfgVars, runVars, hist, queryVars>>

\* upload_handler.py:18-105: validation, a fresh blueprint id, the metadata write
IntakeRequest(r) ==
    /\ ipc[r] = "idle"
    /\ store[Key(r, "metadata")] = NoDoc
    /\ \E req \in IntakeRequests, fault \in BOOLEAN :
          /\ ireq' = [ireq EXCEPT ![r] = req]
          /\ IF Validate(req, r[1]) # Accepted
             THEN /\ iresp' = [iresp EXCEPT ![r] =
                                 Response(400, [error |-> Validate(req, r[1])])]
                  /\ UNCHANGED <<store, ipc>>
             ELSE IF fault
             THEN /\ iresp' = [iresp EXCEPT ![r] =
                                 Response(500, [error |-> "Failed to generate upload URL"])]
                  /\ UNCHANGED <<store, ipc>>
             ELSE /\ store' = [store EXCEPT ![Key(r, "metadata")] = MetadataDoc(r, req)]
                  /\ ipc' = [ipc EXCEPT ![r] = "put_status"]
                  /\ iresp' = [iresp EXCEPT ![r] = NoResp]
    /\ UNCHANGED <<cfgVars, runVars, hist, queryVars>>

\* upload_handler.py:76-85, 131-136: the client that got the 200 response
\* puts the artifact through the presigned URL, at any later moment or never
UploadArtifact(r) ==
    /\ iresp[r].statusCode = 200
    /\ store[iresp[r].body.s3Key] = NoDoc
    /\ store' = [store EXCEPT ![iresp[r].body.s3Key] = ArtifactDoc]
    /\ UNCHANGED <<cfgVars, intakeVars, runVars, hist, queryVars>>

\* upload_handler.py:107-137: the initial status write and the 200 response
IntakePutStatus(r) ==
    /\ ipc[r] = "put_status"
    /\ \E fault \in BOOLEAN :
          IF fault
          THEN /\ iresp' = [iresp EXCEPT ![r] =
                              Response(500, [error |-> "Failed to generate upload URL"])]
               /\ UNCHANGED <<store, hist>>
          ELSE /\ PutStatus(r, "upload", <<>>)
               /\ iresp' = [iresp EXCEPT ![r] =
                              Response(200, [blueprintId |-> r[2],
                                             s3Key |-> store[Key(r, "metadata")].s3Key])]
    /\ ipc' = [ipc EXCEPT ![r] = "idle"]
    /\ UNCHANGED <<cfgVars, ireq, runVars, queryVars>>

----------------------------------------------------------------------------
(* Run trigger: inference_handler.lambda_handler *)

NoConf == 0 - 1             \* the request carries no confidence
ConfInputs == {NoConf, 150}     \* hundredths: none, and 1.5

\* the parsed request body that carries both ids, with or without a confidence
RunBody(r, conf) ==
    IF conf = NoConf
    THEN [blueprintId |-> r[2], sessionId |-> r[1]]
    ELSE [blueprintId |-> r[2], sessionId |-> r[1], confidence |-> conf]

\* a confidence brought into the range [0, 1]
payload_confidence_clamped(b) ==
    IF "confidence" \notin DOMAIN b THEN 50
    ELSE IF b.confidence > 100 THEN 100
    ELSE IF b.confidence < 0 THEN 0
    ELSE b.confidence

\* body.get('confidence', 0.5)
payload_confidence(b) == IF "confidence" \in DOMAIN b THEN b.confidence ELSE 50

ErrorBody(error, details) == [error |-> error, details |-> details]

\* Leaving the handler: the locals go away, the response is what the caller gets
Return(r, response) ==
    /\ resp' = [resp EXCEPT ![r] = response]
    /\ pc' = [pc EXCEPT ![r] = "idle"]
    /\ attempt' = [attempt EXCEPT ![r] = 0]
    /\ body' = [body EXCEPT ![r] = None]
    /\ payload' = [payload EXCEPT ![r] = None]
    /\ result' = [result EXCEPT ![r] = None]
    /\ exc' = [exc EXCEPT ![r] = NoExc]
    /\ trace' = [trace EXCEPT ![r] = <<>>]

\* inference_handler.py:321-334: the outer handler, which writes no status
OuterExcept(r, e) ==
    Return(r, Response(500, ErrorBody("Internal server error", e.msg)))

\* An exception raised inside the inner try block: control goes to the
\* matching except clause, which first writes the failed status
Raise(r, e) ==
    /\ exc' = [exc EXCEPT ![r] = e]
    /\ pc' = [pc EXCEPT ![r] =
                IF e.type = "ModelError" THEN "except_model" ELSE "except_other"]

ClientError == Exc("ClientError", <<"ClientError">>)

\* NoSuchKey left to the outer handler
MetadataNotFound_unhandled ==
    Response(500, ErrorBody("Internal server error", <<"NoSuchKey">>))

\* inference_handler.py:110-121
MetadataNotFound == Response(404, ErrorBody("Blueprint metadata not found", <<>>))

\* inference_handler.py:75-136: parse the request, resolve the artifact from
\* the metadata document, build the payload
RunRequest(r) ==
    /\ pc[r] = "idle"
    /\ ipc[r] = "idle"
    /\ \E has_ids \in BOOLEAN, conf \in ConfInputs, fault \in BOOLEAN :
          LET metadata == store[Key(r, "metadata")] IN
          IF ~has_ids
          THEN /\ Return(r, Response(400, ErrorBody("Missing required fields: blueprintId, sessionId", <<>>)))
               /\ runw' = [runw EXCEPT ![r] = <<>>] /\ UNCHANGED <<runs, seen, hist>>
          ELSE IF fault
          THEN /\ OuterExcept(r, ClientError)
               /\ runw' = [runw EXCEPT ![r] = <<>>] /\ UNCHANGED <<runs, seen, hist>>
          ELSE IF metadata = NoDoc
          THEN /\ Return(r, MetadataNotFound)
               /\ runw' = [runw EXCEPT ![r] = <<>>] /\ UNCHANGED <<runs, seen, hist>>
          ELSE IF metadata.s3Key = NoKey
          THEN /\ OuterExcept(r, Exc("ValueError", <<"S3 key not found in metadata">>))
               /\ runw' = [runw EXCEPT ![r] = <<>>] /\ UNCHANGED <<runs, seen, hist>>
          ELSE /\ runs[r] < MaxRuns
               /\ body' = [body EXCEPT ![r] = RunBody(r, conf)]
               /\ payload' = [payload EXCEPT ![r] =
                                [s3_uri |-> metadata.s3Key,
                                 confidence |-> payload_confidence(RunBody(r, conf))]]
               /\ pc' = [pc EXCEPT ![r] = "put_preprocessing"]
               /\ runs' = [runs EXCEPT ![r] = @ + 1]
               /\ trace' = [trace EXCEPT ![r] = <<>>]
               /\ runw' = [runw EXCEPT ![r] = <<>>]
               /\ resp' = [resp EXCEPT ![r] = NoResp]
               /\ seen' = [seen EXCEPT ![r[2]] = <<>>]
               /\ hist' = [hist EXCEPT ![r] = IF @ = <<>> THEN <<>> ELSE <<@[Len(@)]>>]
               /\ UNCHANGED <<attempt, result, exc>>
    /\ UNCHANGED <<cfgVars, store, intakeVars, rresp>>

\* One status write of the pipeline at position `at`, going on to `next`.
\* A failed write raises ClientError: to the outer handler before the inner
\* try block is entered, to its except clause inside it.
RunPutStatus(r, at, stage, next) ==
    /\ pc[r] = at
    /\ \E fault \in BOOLEAN :
          IF fault
          THEN /\ IF at = "put_preprocessing"
                  THEN OuterExcept(r, ClientError)
                  ELSE Raise(r, ClientError)
                       /\ UNCHANGED <<attempt, body, payload, result, resp, trace>>
               /\ UNCHANGED <<store, hist, runw>>
          ELSE /\ PutStatus(r, stage, <<>>)
               /\ runw' = [runw EXCEPT ![r] = Append(@, StatusWrite(stage))]
               /\ pc' = [pc EXCEPT ![r] = next]
               /\ UNCHANGED <<attempt, body, payload, result, exc, resp, trace>>
    /\ UNCHANGED <<cfgVars, intakeVars, runs, queryVars>>

\* inference_handler.py:138-153
PutPreprocessing(r) == RunPutStatus(r, "put_preprocessing", "preprocessing", "put_inference")

\* the inference status write left out: the handler goes straight to the call
PutInference_skips_write(r) ==
    /\ pc[r] = "put_inference"
    /\ pc' = [pc EXCEPT ![r] = "invoke"]
    /\ UNCHANGED <<cfgVars, store, intakeVars, attempt, body, payload, result, exc, resp,
                   runs, trace, hist, runw, queryVars>>

\* inference_handler.py:156-170
PutInference(r) == RunPutStatus(r, "put_inference", "inference", "invoke")

\* a loop that backs off after every transient failure, the last permitted
\* attempt included, and then re-raises
InvokeAttemptOf_sleeps_before_raise(r, messages) ==
    /\ pc[r] = "invoke"
    /\ attempt[r] < MAX_RETRIES
    /\ \E o \in EndpointOutcomesFor(store, payload[r], messages) :
          IF o.out = "ok"
          THEN /\ result' = [result EXCEPT ![r] = o.body]
               /\ trace' = [trace EXCEPT ![r] = Append(@, CallEvent(o))]
               /\ pc' = [pc EXCEPT ![r] = "put_postprocess"]
               /\ UNCHANGED <<attempt, exc>>
          ELSE IF on_failure(o.out, o.msg, attempt[r], MAX_RETRIES) = "sleep"
          THEN /\ trace' = [trace EXCEPT ![r] =
                              @ \o <<CallEvent(o),
                                     SleepEvent(backoff_delay(RETRY_DELAY, attempt[r]))>>]
               /\ attempt' = [attempt EXCEPT ![r] = @ + 1]
               /\ UNCHANGED <<pc, result, exc>>
          ELSE /\ trace' = [trace EXCEPT ![r] =
                              IF o.out = "Exception" /\ is_retryable(o.msg)
                              THEN @ \o <<CallEvent(o),
                                          SleepEvent(backoff_delay(RETRY_DELAY, attempt[r]))>>
                              ELSE Append(@, CallEvent(o))]
               /\ Raise(r, Exc(o.out, o.msg))
               /\ UNCHANGED <<attempt, result>>
    /\ UNCHANGED <<cfgVars, store, intakeVars, body, payload, resp, runs, hist, runw, queryVars>>

\* inference_handler.py:32-68, one pass through the loop body: an endpoint
\* call, then return, re-raise, or sleep and go round again
InvokeAttemptOf(r, messages) ==
    /\ pc[r] = "invoke"
    /\ attempt[r] < MAX_RETRIES
    /\ \E o \in EndpointOutcomesFor(store, payload[r], messages) :
          IF o.out = "ok"
          THEN /\ result' = [result EXCEPT ![r] = o.body]
               /\ trace' = [trace EXCEPT ![r] = Append(@, CallEvent(o))]
               /\ pc' = [pc EXCEPT ![r] = "put_postprocess"]
               /\ UNCHANGED <<attempt, exc>>
          ELSE IF on_failure(o.out, o.msg, attempt[r], MAX_RETRIES) = "sleep"
          THEN /\ trace' = [trace EXCEPT ![r] =
                              @ \o <<CallEvent(o),
                                     SleepEvent(backoff_delay(RETRY_DELAY, attempt[r]))>>]
               /\ attempt' = [attempt EXCEPT ![r] = @ + 1]
               /\ UNCHANGED <<pc, result, exc>>
          ELSE /\ trace' = [trace EXCEPT ![r] = Append(@, CallEvent(o))]
               /\ Raise(r, Exc(o.out, o.msg))
               /\ UNCHANGED <<attempt, result>>
    /\ UNCHANGED <<cfgVars, store, intakeVars, body, payload, resp, runs, hist, runw, queryVars>>

\* a loop that goes round again after a backoff without counting the attempt
InvokeAttempt_does_not_count(r) ==
    /\ pc[r] = "invoke"
    /\ attempt[r] < MAX_RETRIES
    /\ \E o \in EndpointOutcomesFor(store, payload[r], ErrorMessages) :
          IF o.out = "ok"
          THEN /\ result' = [result EXCEPT ![r] = o.body]
               /\ trace' = [trace EXCEPT ![r] = Append(@, CallEvent(o))]
               /\ pc' = [pc EXCEPT ![r] = "put_postprocess"]
               /\ UNCHANGED <<attempt, exc>>
          ELSE IF on_failure(o.out, o.msg, attempt[r], MAX_RETRIES) = "sleep"
          THEN /\ trace' = [trace EXCEPT ![r] =
                              @ \o <<CallEvent(o),
                                     SleepEvent(backoff_delay(RETRY_DELAY, attempt[r]))>>]
               /\ UNCHANGED <<attempt, pc, result, exc>>
          ELSE /\ trace' = [trace EXCEPT ![r] = Append(@, CallEvent(o))]
               /\ Raise(r, Exc(o.out, o.msg))
               /\ UNCHANGED <<attempt, result>>
    /\ UNCHANGED <<cfgVars, store, intakeVars, body, payload, resp, runs, hist, runw, queryVars>>

InvokeAttempt(r) == InvokeAttemptOf(r, ErrorMessages)

\* inference_handler.py:32: range(max_retries) is exhausted without a return
\* or a raise, so the function falls off its end and returns None
InvokeFallThrough(r) ==
    /\ pc[r] = "invoke"
    /\ attempt[r] >= MAX_RETRIES
    /\ result' = [result EXCEPT ![r] = None]
    /\ pc' = [pc EXCEPT ![r] = "put_postprocess"]
    /\ UNCHANGED <<cfgVars, store, intakeVars, attempt, body, payload, exc, resp, runs,
                   trace, hist, runw, queryVars>>

\* inference_handler.py:175-189
PutPostprocess(r) == RunPutStatus(r, "put_postprocess", "postprocess", "put_results")

\* a results write whose failure is swallowed, the handler going on to the
\* complete status
PutResults_swallows_write_error(r) ==
    /\ pc[r] = "put_results"
    /\ \E fault \in BOOLEAN :
          IF result[r] = None
          THEN /\ Raise(r, Exc("AttributeError", <<"'NoneType' object has no attribute 'get'">>))
               /\ UNCHANGED <<store, runw>>
          ELSE IF fault
          THEN /\ pc' = [pc EXCEPT ![r] = "put_complete"]
               /\ UNCHANGED <<store, runw, exc>>
          ELSE /\ store' = [store EXCEPT ![Key(r, "results")] =
                              formatted_results(r[2], result[r])]
               /\ runw' = [runw EXCEPT ![r] = Append(@, ResultsWrite)]
               /\ pc' = [pc EXCEPT ![r] = "put_complete"]
               /\ UNCHANGED exc
    /\ UNCHANGED <<cfgVars, intakeVars, attempt, body, payload, result, resp, runs, trace,
                   hist, queryVars>>

\* inference_handler.py:191-225: statistics, formatting, the results write.
\* result.get on None raises AttributeError before anything is written.
PutResults(r) ==
    /\ pc[r] = "put_results"
    /\ \E fault \in BOOLEAN :
          IF result[r] = None
          THEN /\ Raise(r, Exc("AttributeError", <<"'NoneType' object has no attribute 'get'">>))
               /\ UNCHANGED <<store, runw>>
          ELSE IF fault
          THEN /\ Raise(r, ClientError)
               /\ UNCHANGED <<store, runw>>
          ELSE /\ store' = [store EXCEPT ![Key(r, "results")] =
                              formatted_results(r[2], result[r])]
               /\ runw' = [runw EXCEPT ![r] = Append(@, ResultsWrite)]
               /\ pc' = [pc EXCEPT ![r] = "put_complete"]
               /\ UNCHANGED exc
    /\ UNCHANGED <<cfgVars, intakeVars, attempt, body, payload, result, resp, runs, trace,
                   hist, queryVars>>

\* the 200 response built from the endpoint's response instead of the
\* formatted results
PutComplete_returns_endpoint_response(r) ==
    /\ pc[r] = "put_complete"
    /\ \E fault \in BOOLEAN :
          IF fault
          THEN /\ Raise(r, ClientError)
               /\ UNCHANGED <<store, hist, runw, attempt, body, payload, result, resp, trace>>
          ELSE /\ PutStatus(r, "complete", <<>>)
               /\ runw' = [runw EXCEPT ![r] = Append(@, StatusWrite("complete"))]
               /\ Return(r, Response(200,
                     [message |-> "Inference completed successfully",
                      blueprintId |-> r[2],
                      results |-> result[r]]))
    /\ UNCHANGED <<cfgVars, intakeVars, runs, queryVars>>

\* inference_handler.py:227-259: the complete status and the 200 response
PutComplete(r) ==
    /\ pc[r] = "put_complete"
    /\ \E fault \in BOOLEAN :
          IF fault
          THEN /\ Raise(r, ClientError)
               /\ UNCHANGED <<store, hist, runw, attempt, body, payload, result, resp, trace>>
          ELSE /\ PutStatus(r, "complete", <<>>)
               /\ runw' = [runw EXCEPT ![r] = Append(@, StatusWrite("complete"))]
               /\ Return(r, Response(200,
                     [message |-> "Inference completed successfully",
                      blueprintId |-> r[2],
                      results |-> formatted_results(r[2], result[r])]))
    /\ UNCHANGED <<cfgVars, intakeVars, runs, queryVars>>

\* The failed status and the 500 response of an except clause of the inner
\* try.  A failed write raises out of the clause, to the outer handler.
ExceptClause(r, at, prefix, error) ==
    /\ pc[r] = at
    /\ \E fault \in BOOLEAN :
          IF fault
          THEN /\ OuterExcept(r, ClientError)
               /\ UNCHANGED <<store, hist, runw>>
          ELSE /\ PutStatus(r, "failed", <<prefix>> \o exc[r].msg)
               /\ runw' = [runw EXCEPT ![r] = Append(@, StatusWrite("failed"))]
               /\ Return(r, Response(500, ErrorBody(error, exc[r].msg)))
    /\ UNCHANGED <<cfgVars, intakeVars, runs, queryVars>>

\* inference_handler.py:261-289
ExceptModelError(r) ==
    ExceptClause(r, "except_model", "Model inference failed: ", "Model inference failed")

\* the generic clause reporting the progress reached instead of 0
ExceptException_keeps_progress(r) ==
    /\ pc[r] = "except_other"
    /\ \E fault \in BOOLEAN :
          IF fault
          THEN /\ OuterExcept(r, ClientError)
               /\ UNCHANGED <<store, hist, runw>>
          ELSE /\ store' = [store EXCEPT ![Key(r, "status")] =
                              [StatusDoc(r[2], "failed",
                                         <<"Failed to invoke SageMaker endpoint: ">> \o exc[r].msg)
                               EXCEPT !.progress = 50]]
               /\ hist' = [hist EXCEPT ![r] = Append(@, <<"failed", 50>>)]
               /\ runw' = [runw EXCEPT ![r] = Append(@, StatusWrite("failed"))]
               /\ Return(r, Response(500, ErrorBody("Failed to invoke SageMaker endpoint",
                                                    exc[r].msg)))
    /\ UNCHANGED <<cfgVars, intakeVars, runs, queryVars>>

\* inference_handler.py:291-319
ExceptException(r) ==
    ExceptClause(r, "except_other", "Failed to invoke SageMaker endpoint: ",
                 "Failed to invoke SageMaker endpoint")

----------------------------------------------------------------------------
(* Status query and results query, by blueprint id alone *)

SynthesizedStatus(id) ==
    [blueprintId |-> id, status |-> "completed", stage |-> "complete", progress |-> 100,
     estimatedTimeRemaining |-> 0, message |-> <<"Processing completed successfully">>]

\* status_handler.py:34-105
status_response(st, id) ==
    LET status_key == FindKey(st, id, "status")
        results_key == FindKey(st, id, "results")
    IN  IF status_key = NoKey
        THEN IF results_key # NoKey
             THEN Response(200, SynthesizedStatus(id))
             ELSE Response(404, ErrorBody("Blueprint not found or processing not started", <<>>))
        ELSE Response(200, st[status_key])

\* results_handler.py:35-79
results_response(st, id) ==
    LET results_key == FindKey(st, id, "results")
    IN  IF results_key = NoKey
        THEN Response(404, ErrorBody("Results not found for this blueprint ID", <<>>))
        ELSE Response(200, st[results_key])

InternalServerError == Response(500, ErrorBody("Internal server error", <<"ClientError">>))

\* what a polling client keeps of a status response: the key it was read
\* from, the status code and, of a 200 body, status, stage and progress
Observation(key, response) ==
    [key |-> key,
     statusCode |-> response.statusCode,
     status |-> IF response.statusCode = 200 THEN response.body.status ELSE "",
     stage |-> IF response.statusCode = 200 THEN response.body.stage ELSE "",
     progress |-> IF response.statusCode = 200 THEN response.body.progress ELSE 0 - 1]

\* the window of the last two observations, after one more
Observe(window, o) ==
    IF Len(window) < 2 THEN Append(window, o) ELSE <<window[2], o>>

\* a status query that stores the status it synthesizes
StatusQuery_persists_synthesized(id) ==
    /\ \E fault \in BOOLEAN :
          LET status_key == FindKey(store, id, "status")
              results_key == FindKey(store, id, "results")
          IN  /\ seen' = [seen EXCEPT ![id] =
                            Observe(@, Observation(status_key,
                                                   IF fault THEN InternalServerError
                                                   ELSE status_response(store, id)))]
              /\ IF ~fault /\ status_key = NoKey /\ results_key # NoKey
                 THEN store' = [store EXCEPT ![<<results_key[1], results_key[2], "status">>] =
                                   StatusDoc(id, "complete", <<>>)]
                 ELSE UNCHANGED store
    /\ UNCHANGED <<cfgVars, intakeVars, runVars, hist, rresp>>

\* status_handler.lambda_handler; a failed S3 call gives the 500 response
StatusQuery(id) ==
    /\ \E fault \in BOOLEAN :
          seen' = [seen EXCEPT ![id] =
                      Observe(@, Observation(FindKey(store, id, "status"),
                                             IF fault THEN InternalServerError
                                             ELSE status_response(store, id)))]
    /\ UNCHANGED <<cfgVars, store, intakeVars, runVars, hist, rresp>>

\* results_handler.lambda_handler
ResultsQuery(id) ==
    /\ \E fault \in BOOLEAN :
          rresp' = [rresp EXCEPT ![id] = IF fault THEN InternalServerError
                                         ELSE results_response(store, id)]
    /\ UNCHANGED <<cfgVars, store, intakeVars, runVars, hist, seen>>

----------------------------------------------------------------------------

Pipeline ==
    \/ \E r \in JobRefs : IntakeRequest(r)
    \/ \E r \in JobRefs : IntakePutStatus(r)
    \/ \E r \in JobRefs : UploadArtifact(r)
    \/ \E r \in JobRefs : RunRequest(r)
    \/ \E r \in JobRefs : PutPreprocessing(r)
    \/ \E r \in JobRefs : PutInference(r)
    \/ \E r \in JobRefs : InvokeAttempt(r)
    \/ \E r \in JobRefs : InvokeFallThrough(r)
    \/ \E r \in JobRefs : PutPostprocess(r)
    \/ \E r \in JobRefs : PutResults(r)
    \/ \E r \in JobRefs : PutComplete(r)
    \/ \E r \in JobRefs : ExceptModelError(r)
    \/ \E r \in JobRefs : ExceptException(r)

\* The job lifecycle: intake and run trigger over the bucket
Next == Pipeline

Spec == Init /\ [][Next]_vars

\* a step of a run-trigger invocation that has begun: each of its S3 calls
\* and endpoint calls returns or raises, and the interpreter goes on
InvocationStep(r) ==
    \/ PutPreprocessing(r)
    \/ PutInference(r)
    \/ InvokeAttempt(r)
    \/ InvokeFallThrough(r)
    \/ PutPostprocess(r)
    \/ PutResults(r)
    \/ PutComplete(r)
    \/ ExceptModelError(r)
    \/ ExceptException(r)

\* The job lifecycle in which no invocation that has begun stops for ever
\* in the middle of the handler
SpecTermination == Spec /\ \A r \in JobRefs : WF_vars(InvocationStep(r))

\* The job lifecycle with a client polling the status query
NextReaders ==
    \/ Pipeline
    \/ \E id \in QueryIds : StatusQuery(id)

InitReaders ==
    /\ MAX_RETRIES \in {0, 2}
    /\ RETRY_DELAY = 1
    /\ InitJobs

SpecReaders == InitReaders /\ [][NextReaders]_vars

\* invoke_sagemaker_with_retry called on its own, for every max_retries and
\* base delay explored
InitInvoker ==
    /\ MAX_RETRIES \in 0..MaxRetriesCfg
    /\ RETRY_DELAY \in DelayChoices
    /\ store = [k \in Keys |-> IF k[3] = "original" THEN ArtifactDoc ELSE NoDoc]
    /\ ipc = [r \in JobRefs |-> "idle"]
    /\ ireq = [r \in JobRefs |-> NoRequest]
    /\ iresp = [r \in JobRefs |-> NoResp]
    /\ pc = [r \in JobRefs |-> "invoke"]
    /\ attempt = [r \in JobRefs |-> 0]
    /\ body = [r \in JobRefs |-> RunBody(r, NoConf)]
    /\ payload = [r \in JobRefs |-> [s3_uri |-> Key(r, "original"), confidence |-> 50]]
    /\ result = [r \in JobRefs |-> None]
    /\ exc = [r \in JobRefs |-> NoExc]
    /\ resp = [r \in JobRefs |-> NoResp]
    /\ runs = [r \in JobRefs |-> 0]
    /\ trace = [r \in JobRefs |-> <<>>]
    /\ hist = [r \in JobRefs |-> <<>>]
    /\ runw = [r \in JobRefs |-> <<>>]
    /\ seen = [id \in QueryIds |-> <<>>]
    /\ rresp = [id \in QueryIds |-> NoResp]

NextInvoker ==
    \/ \E r \in JobRefs : InvokeAttemptOf(r, InvokerMessages)
    \/ \E r \in JobRefs : InvokeFallThrough(r)

SpecInvoker == InitInvoker /\ [][NextInvoker]_vars

\* The whole system: the job lifecycle with the status query and the
\* results query polled at any moment
InitSystem ==
    /\ MAX_RETRIES \in {0, 1}
    /\ RETRY_DELAY = 1
    /\ InitJobs

NextSystem ==
    \/ Pipeline /\ \A r \in JobRefs : runs'[r] <= MaxRunsPolled
    \/ \E id \in QueryIds : StatusQuery(id)
    \/ \E id \in QueryIds : ResultsQuery(id)

SpecSystem == InitSystem /\ [][NextSystem]_vars

\* The two query handlers over a bucket with the documents of the job and
\* the objects of other clients in it.  S3 keeps no link between the
\* documents of a job: each may be present or absent (objects expire or are
\* removed by bucket housekeeping), and the handlers take what they find.
JobStatusDocs == { NoDoc, StatusDoc(J1, "upload", <<>>), StatusDoc(J1, "complete", <<>>) }
JobResultsDocs == { NoDoc, formatted_results(J1, predict_fn(<<>>)) }
OtherStatusDocs == { NoDoc, StatusDoc(J0, "failed", <<"Model inference failed: ">>) }
OtherResultsDocs == { NoDoc, formatted_results(J0, predict_fn(<<Det("wall", 90)>>)) }
FillerDoc == ArtifactDoc

BucketContents ==
    { [k \in Keys \cup OtherKeys |->
          IF k = <<S1, J1, "status">> THEN js
          ELSE IF k = <<S1, J1, "results">> THEN jr
          ELSE IF k = <<S0, J0, "status">> THEN os
          ELSE IF k = <<S0, J0, "results">> THEN or
          ELSE IF k \in FillerKeys /\ full THEN FillerDoc
          ELSE NoDoc] :
        js \in JobStatusDocs, jr \in JobResultsDocs, os \in OtherStatusDocs,
        or \in OtherResultsDocs, full \in BOOLEAN }

InitQueries ==
    /\ MAX_RETRIES = 3
    /\ RETRY_DELAY = 1
    /\ store \in BucketContents
    /\ ipc = [r \in JobRefs |-> "idle"]
    /\ ireq = [r \in JobRefs |-> NoRequest]
    /\ iresp = [r \in JobRefs |-> NoResp]
    /\ pc = [r \in JobRefs |-> "idle"]
    /\ attempt = [r \in JobRefs |-> 0]
    /\ body = [r \in JobRefs |-> None]
    /\ payload = [r \in JobRefs |-> None]
    /\ result = [r \in JobRefs |-> None]
    /\ exc = [r \in JobRefs |-> NoExc]
    /\ resp = [r \in JobRefs |-> NoResp]
    /\ runs = [r \in JobRefs |-> 0]
    /\ trace = [r \in JobRefs |-> <<>>]
    /\ hist = [r \in JobRefs |-> <<>>]
    /\ runw = [r \in JobRefs |-> <<>>]
    /\ seen = [id \in QueryIds |-> <<>>]
    /\ rresp = [id \in QueryIds |-> NoResp]

NextQueries ==
    \/ \E id \in QueryIds : StatusQuery(id)
    \/ \E id \in QueryIds : ResultsQuery(id)

SpecQueries == InitQueries /\ [][NextQueries]_vars

\* A bucket that other uploads have used before: empty, or holding the
\* objects FillerKeys
PriorBuckets ==
    { [k \in Keys \cup OtherKeys |-> IF k \in FillerKeys /\ full THEN FillerDoc ELSE NoDoc] :
        full \in BOOLEAN }

InitBucket ==
    /\ MAX_RETRIES \in {0, 1}
    /\ RETRY_DELAY = 1
    /\ store \in PriorBuckets
    /\ ipc = [r \in JobRefs |-> "idle"]
    /\ ireq = [r \in JobRefs |-> NoRequest]
    /\ iresp = [r \in JobRefs |-> NoResp]
    /\ pc = [r \in JobRefs |-> "idle"]
    /\ attempt = [r \in JobRefs |-> 0]
    /\ body = [r \in JobRefs |-> None]
    /\ payload = [r \in JobRefs |-> None]
    /\ result = [r \in JobRefs |-> None]
    /\ exc = [r \in JobRefs |-> NoExc]
    /\ resp = [r \in JobRefs |-> NoResp]
    /\ runs = [r \in JobRefs |-> 0]
    /\ trace = [r \in JobRefs |-> <<>>]
    /\ hist = [r \in JobRefs |-> <<>>]
    /\ runw = [r \in JobRefs |-> <<>>]
    /\ seen = [id \in QueryIds |-> <<>>]
    /\ rresp = [id \in QueryIds |-> NoResp]

\* The job lifecycle and the results query in such a bucket
NextBucket ==
    \/ Pipeline
    \/ \E id \in QueryIds : ResultsQuery(id)

SpecBucket == InitBucket /\ [][NextBucket]_vars

\* Intake and the status query in such a bucket
NextIntake ==
    \/ \E r \in JobRefs : IntakeRequest(r)
    \/ \E r \in JobRefs : IntakePutStatus(r)
    \/ \E r \in JobRefs : UploadArtifact(r)
    \/ \E id \in QueryIds : StatusQuery(id)

SpecIntake == InitBucket /\ [][NextIntake]_vars

\* The whole system in a bucket that is empty, or holds a job whose Status
\* document is gone while its other objects are there (an expired or removed
\* object; the case status_handler.py:49-74 provides for)
StatusLostBucket ==
    [k \in Keys |->
        CASE k[3] = "metadata" ->
                MetadataDoc(<<k[1], k[2]>>, IntakeRequest_(Str(<<"plan", "png">>),
                                                           Str(<<"image/png">>), Num(1024)))
          [] k[3] = "original" -> ArtifactDoc
          [] k[3] = "results"  -> formatted_results(k[2], predict_fn(<<>>))
          [] k[3] = "status"   -> NoDoc]

InitQueryPaths ==
    /\ MAX_RETRIES \in {0, 1}
    /\ RETRY_DELAY = 1
    /\ store \in { [k \in Keys |-> NoDoc], StatusLostBucket }
    /\ ipc = [r \in JobRefs |-> "idle"]
    /\ ireq = [r \in JobRefs |-> NoRequest]
    /\ iresp = [r \in JobRefs |-> NoResp]
    /\ pc = [r \in JobRefs |-> "idle"]
    /\ attempt = [r \in JobRefs |-> 0]
    /\ body = [r \in JobRefs |-> None]
    /\ payload = [r \in JobRefs |-> None]
    /\ result = [r \in JobRefs |-> None]
    /\ exc = [r \in JobRefs |-> NoExc]
    /\ resp = [r \in JobRefs |-> NoResp]
    /\ runs = [r \in JobRefs |-> 0]
    /\ trace = [r \in JobRefs |-> <<>>]
    /\ hist = [r \in JobRefs |-> <<>>]
    /\ runw = [r \in JobRefs |-> <<>>]
    /\ seen = [id \in QueryIds |-> <<>>]
    /\ rresp = [id \in QueryIds |-> NoResp]

SpecQueryPaths == InitQueryPaths /\ [][NextSystem]_vars

\* The job lifecycle in a bucket that holds the documents of another job:
\* none yet, those intake wrote, or those of a finished run
OtherJob == <<S0, J0>>

OtherJobBuckets ==
    { [k \in Keys \cup ColliderKeys |->
          IF k \in Keys \/ at = "none" THEN NoDoc
          ELSE IF k[3] = "metadata"
          THEN MetadataDoc(OtherJob, IntakeRequest_(Str(<<"site", "pdf">>),
                                                    Str(<<"application/pdf">>), Num(2048)))
          ELSE IF k[3] = "status" THEN StatusDoc(J0, at, <<>>)
          ELSE IF at = "complete" THEN formatted_results(J0, predict_fn(<<Det("wall", 90)>>))
          ELSE NoDoc] :
        at \in {"none", "upload", "complete"} }

InitOtherJob ==
    /\ MAX_RETRIES \in {0, 1}
    /\ RETRY_DELAY = 1
    /\ store \in OtherJobBuckets
    /\ ipc = [r \in JobRefs |-> "idle"]
    /\ ireq = [r \in JobRefs |-> NoRequest]
    /\ iresp = [r \in JobRefs |-> NoResp]
    /\ pc = [r \in JobRefs |-> "idle"]
    /\ attempt = [r \in JobRefs |-> 0]
    /\ body = [r \in JobRefs |-> None]
    /\ payload = [r \in JobRefs |-> None]
    /\ result = [r \in JobRefs |-> None]
    /\ exc = [r \in JobRefs |-> NoExc]
    /\ resp = [r \in JobRefs |-> NoResp]
    /\ runs = [r \in JobRefs |-> 0]
    /\ trace = [r \in JobRefs |-> <<>>]
    /\ hist = [r \in JobRefs |-> <<>>]
    /\ runw = [r \in JobRefs |-> <<>>]
    /\ seen = [id \in QueryIds |-> <<>>]
    /\ rresp = [id \in QueryIds |-> NoResp]

SpecOtherJob == InitOtherJob /\ [][Next]_vars

\* The same, with a client polling the status query
SpecSharedBucket == InitOtherJob /\ [][NextReaders]_vars

----------------------------------------------------------------------------
(* Properties of the retrying invoker, checked under SpecInvoker *)

IsCall(e) == e.op = "call"
IsSleep(e) == e.op = "sleep"
Failed(e) == IsCall(e) /\ e.outcome.out # "ok"

\* the number of endpoint calls among the first i events
CallsUpTo(tr, i) == Cardinality({j \in 1..i : IsCall(tr[j])})
NumCalls(tr) == CallsUpTo(tr, Len(tr))
Sleeps(tr) == {i \in 1..Len(tr) : IsSleep(tr[i])}

\* the call has raised e to its caller
Raised(r, e) == exc[r] = e /\ pc[r] \in {"except_model", "except_other"}

\* the call has returned b to its caller
Returned(r, b) == result[r] = b /\ pc[r] = "put_postprocess"

\* C1: a ModelError raised by an endpoint call is the last event of the
\* invoker's call, whatever the attempts remaining: no endpoint call and no
\* sleep follows it, and it is what the caller gets.  A first attempt that
\* raises ModelError therefore makes exactly one endpoint call.
C1_ModelErrorNotRetried ==
    \A r \in JobRefs : \A i \in 1..Len(trace[r]) :
        (IsCall(trace[r][i]) /\ trace[r][i].outcome.out = "ModelError") =>
            /\ i = Len(trace[r])
            /\ Raised(r, Exc("ModelError", trace[r][i].outcome.msg))
            /\ (i = 1 => NumCalls(trace[r]) = 1)

\* a ModelError with a message that carries a transient marker, on the
\* second attempt, with attempts remaining
C1_Witness ==
    \E r \in JobRefs :
        /\ Len(trace[r]) = 3
        /\ trace[r][3] = CallEvent([out |-> "ModelError", msg |-> <<"ServiceUnavailable">>])
        /\ attempt[r] + 1 < MAX_RETRIES

\* the failure is transient as the claim defines it
TransientFailure(e) ==
    /\ IsCall(e)
    /\ e.outcome.out = "Exception"
    /\ \/ HasWord(e.outcome.msg, "ServiceUnavailable")
       \/ HasWord(e.outcome.msg, "ThrottlingException")
       \/ HasWord(e.outcome.msg, "InternalFailure")
       \/ \E i \in 1..Len(e.outcome.msg) : e.outcome.msg[i] \in {"timeout", "Timeout"}

\* C8: with max_retries = N >= 1, a transient failure on an attempt before
\* the N-th is followed by a sleep and another attempt; at most N endpoint
\* calls are made; a successful attempt ends the call, which returns that
\* attempt's response; the failure of the N-th attempt, and a ModelError on
\* any attempt, end the call, which raises that failure.
C8_RetryUntilSuccessOrExhaustion ==
    \A r \in JobRefs : MAX_RETRIES >= 1 =>
        /\ NumCalls(trace[r]) <= MAX_RETRIES
        /\ pc[r] = "put_postprocess" =>
              /\ trace[r] # <<>>
              /\ trace[r][Len(trace[r])].outcome.out = "ok"
        /\ \A i \in 1..Len(trace[r]) :
              LET e == trace[r][i]
                  k == CallsUpTo(trace[r], i)
              IN  /\ (TransientFailure(e) /\ k < MAX_RETRIES) =>
                        /\ i < Len(trace[r])
                        /\ IsSleep(trace[r][i + 1])
                        /\ IF i + 1 < Len(trace[r])
                           THEN IsCall(trace[r][i + 2])
                           ELSE pc[r] = "invoke" /\ attempt[r] = k
                  /\ (IsCall(e) /\ e.outcome.out = "ok") =>
                        /\ i = Len(trace[r])
                        /\ Returned(r, e.outcome.body)
                  /\ (Failed(e) /\ (k = MAX_RETRIES \/ e.outcome.out = "ModelError")) =>
                        /\ i = Len(trace[r])
                        /\ Raised(r, Exc(e.outcome.out, e.outcome.msg))

\* three attempts allowed: two transient failures, then a success returned
C8_Witness ==
    \E r \in JobRefs :
        /\ MAX_RETRIES = 3
        /\ NumCalls(trace[r]) = 3
        /\ TransientFailure(trace[r][1])
        /\ TransientFailure(trace[r][3])
        /\ pc[r] = "put_postprocess"
        /\ result[r] # None

\* C9: the first sleep of a call lasts RETRY_DELAY and every later one twice
\* the one before it; the sleep after the failure of attempt i (0-indexed)
\* is the (i+1)-th sleep, so it lasts RETRY_DELAY * 2^i.
C9_ExponentialBackoff ==
    \A r \in JobRefs : \A i \in Sleeps(trace[r]) :
        LET earlier == {j \in Sleeps(trace[r]) : j < i} IN
        /\ CallsUpTo(trace[r], i) = Cardinality(earlier) + 1
        /\ IF earlier = {}
           THEN trace[r][i].delay = RETRY_DELAY
           ELSE trace[r][i].delay =
                    2 * trace[r][CHOOSE j \in earlier : \A h \in earlier : h <= j].delay

\* three sleeps of one call with a base delay of 3: 3, 6, 12
C9_Witness ==
    \E r \in JobRefs :
        /\ RETRY_DELAY = 3
        /\ Cardinality(Sleeps(trace[r])) = 3
        /\ trace[r][2].delay = 3
        /\ trace[r][4].delay = 6
        /\ trace[r][6].delay = 12

\* C10: whenever the call has returned normally, its last event is a
\* successful endpoint call whose parsed response is the value returned,
\* for every max_retries, 0 included.
C10_ReturnsOnlyAfterSuccess ==
    \A r \in JobRefs : pc[r] = "put_postprocess" =>
        /\ trace[r] # <<>>
        /\ trace[r][Len(trace[r])].outcome.out = "ok"
        /\ result[r] = trace[r][Len(trace[r])].outcome.body

\* the three markers that are looked for in the message as it is
ExactMarkers == {"ServiceUnavailable", "ThrottlingException", "InternalFailure"}

\* the message has the word timeout, in whatever case
SaysTimeout(msg) == \E i \in 1..Len(msg) : msg[i] \in {"timeout", "Timeout", "TIMEOUT"}

\* the message has one of the three markers, but only in another case
MarkerInOtherCaseOnly(msg) ==
    /\ \E i \in 1..Len(msg) :
          msg[i] \in {"serviceunavailable", "throttlingexception", "internalfailure"}
    /\ \A i \in 1..Len(msg) : msg[i] \notin ExactMarkers
    /\ ~SaysTimeout(msg)

\* C35: the type of a failure is looked at before its message.  A
\* ModelError ends the call and is raised even when its message carries a
\* transient marker and attempts remain.  Of the other failures with
\* attempts remaining, one whose message says timeout in any case, or has
\* one of the other three markers in its exact case, is followed by a
\* sleep; one that has such a marker only in another case is not retried.
C35_TypeBeforeMessage ==
    \A r \in JobRefs : \A i \in 1..Len(trace[r]) :
        LET e == trace[r][i]
            k == CallsUpTo(trace[r], i)
        IN  Failed(e) =>
              /\ e.outcome.out = "ModelError" =>
                    /\ i = Len(trace[r])
                    /\ Raised(r, Exc("ModelError", e.outcome.msg))
              /\ (e.outcome.out = "Exception" /\ k < MAX_RETRIES) =>
                    /\ ( \/ SaysTimeout(e.outcome.msg)
                         \/ \E j \in 1..Len(e.outcome.msg) : e.outcome.msg[j] \in ExactMarkers )
                       => (i < Len(trace[r]) /\ IsSleep(trace[r][i + 1]))
                    /\ MarkerInOtherCaseOnly(e.outcome.msg) =>
                          /\ i = Len(trace[r])
                          /\ Raised(r, Exc("Exception", e.outcome.msg))

\* a failure saying TIMEOUT in capitals has been retried, and the next
\* attempt has raised a ModelError whose message says Timeout, with
\* attempts remaining
C35_Witness ==
    \E r \in JobRefs :
        /\ Len(trace[r]) = 3
        /\ trace[r][1] = CallEvent([out |-> "Exception", msg |-> <<"TIMEOUT">>])
        /\ IsSleep(trace[r][2])
        /\ trace[r][3] = CallEvent([out |-> "ModelError", msg |-> <<"Read", "Timeout">>])
        /\ attempt[r] + 1 < MAX_RETRIES
        /\ Raised(r, Exc("ModelError", <<"Read", "Timeout">>))

\* C36: a sleep comes only after a failed endpoint call and is followed
\* by another endpoint call: it is never the last thing a call does, and a
\* call still at a sleep has an attempt left to make.  A call that has
\* ended after k >= 1 endpoint calls, in a success, in the failure of the
\* last permitted attempt or in any other raise, has slept exactly k - 1
\* times; in particular the last permitted attempt is followed by no sleep.
C36_NoSleepAfterLastAttempt ==
    \A r \in JobRefs :
        /\ \A i \in Sleeps(trace[r]) :
              /\ i > 1 /\ Failed(trace[r][i - 1])
              /\ IF i < Len(trace[r])
                 THEN IsCall(trace[r][i + 1])
                 ELSE pc[r] = "invoke" /\ attempt[r] < MAX_RETRIES
        /\ (pc[r] # "invoke" /\ NumCalls(trace[r]) >= 1) =>
              Cardinality(Sleeps(trace[r])) = NumCalls(trace[r]) - 1
        /\ (MAX_RETRIES >= 1 /\ NumCalls(trace[r]) = MAX_RETRIES) =>
              /\ IsCall(trace[r][Len(trace[r])])
              /\ Cardinality(Sleeps(trace[r])) = MAX_RETRIES - 1
        /\ NumCalls(trace[r]) = 0 => trace[r] = <<>>

\* three attempts allowed and all three fail on a transient error: two
\* sleeps, none after the third call, whose failure is raised
C36_Witness ==
    \E r \in JobRefs :
        /\ MAX_RETRIES = 3
        /\ Len(trace[r]) = 5
        /\ NumCalls(trace[r]) = 3
        /\ Cardinality(Sleeps(trace[r])) = 2
        /\ TransientFailure(trace[r][5])
        /\ Raised(r, Exc("Exception", trace[r][5].outcome.msg))

----------------------------------------------------------------------------
(* Properties of the job lifecycle, checked under Spec *)

StatusOf(st, r) == st[Key(r, "status")]
ResultsOf(st, r) == st[Key(r, "results")]

IsFailedStatus(doc) ==
    doc # NoDoc /\ doc.status = "failed" /\ doc.stage = "failed" /\ doc.progress = 0

IsCompleteStatus(doc) ==
    doc # NoDoc /\ doc.status = "completed" /\ doc.stage = "complete" /\ doc.progress = 100

\* the latest run-trigger invocation for r ran the whole pipeline and
\* returned 200
RunSucceeded(r) == pc[r] = "idle" /\ resp[r].statusCode = 200

\* C2: a run-trigger invocation for a job whose Status document exists,
\* returning on any path that identified the job (200, 404 or 500), leaves
\* the stored Status document with status completed or failed.
C2_TerminalStatusAfterReturn ==
    [][\A r \in JobRefs :
          ( /\ StatusOf(store, r) # NoDoc
            /\ pc'[r] = "idle"
            /\ (pc[r] # "idle" \/ resp'[r] # resp[r])
            /\ resp'[r].statusCode \in {200, 404, 500} )
          => StatusOf(store', r).status \in {"completed", "failed"}]_vars

\* C3: whenever a job's Results document exists, its Status document, if
\* there is one, is completed / complete / 100.
C3_ResultsImplyCompleteStatus ==
    \A r \in JobRefs :
        (ResultsOf(store, r) # NoDoc /\ StatusOf(store, r) # NoDoc)
            => IsCompleteStatus(StatusOf(store, r))

InferenceFailed(r) ==
    /\ pc[r] \in {"except_model", "except_other"}
    /\ \/ exc[r].type = "ModelError"
       \/ exc[r].type = "Exception" /\ attempt[r] = MAX_RETRIES - 1

\* C6: when the run trigger returns after the invoker has raised a
\* ModelError or has exhausted its attempts, the job's Status document is
\* failed / failed / 0, the run has written no Results document, the
\* response is an error response, and a results query for the job id
\* returns 404.
C6_InferenceFailureEndsFailed ==
    [][\A r \in JobRefs :
          (InferenceFailed(r) /\ pc'[r] = "idle") =>
              /\ IsFailedStatus(StatusOf(store', r))
              /\ \A i \in 1..Len(runw'[r]) : runw'[r][i] # <<"results">>
              /\ resp'[r].statusCode >= 400
              /\ results_response(store', r[2]).statusCode = 404]_vars

\* C7: a run-trigger invocation for a job whose Status document exists,
\* which returns from the outer handler after an exception in resolving the
\* artifact location or in the preprocessing status write, leaves the
\* Status document failed / failed / 0.
C7_EarlyExceptionEndsFailed ==
    [][\A r \in JobRefs :
          ( /\ StatusOf(store, r) # NoDoc
            /\ pc[r] \in {"idle", "put_preprocessing"}
            /\ pc'[r] = "idle"
            /\ (pc[r] # "idle" \/ resp'[r] # resp[r])
            /\ resp'[r].statusCode = 500 )
          => IsFailedStatus(StatusOf(store', r))]_vars

\* C30: intake rejects a request with a 400 exactly when it does not have
\* fileName, fileType, fileSize and sessionId all present, with a fileType
\* among image/png, image/jpeg, image/jpg, application/pdf and a fileSize
\* of at most 10 * 1024 * 1024; a size of exactly 10 MiB is accepted and
\* one of 10 MiB + 1 is rejected.
C30_IntakeAcceptsExactlyValid ==
    \A r \in JobRefs : ireq[r] # NoRequest =>
        LET q == ireq[r]
            acceptable ==
                /\ q.fileName.present /\ q.fileType.present /\ q.fileSize.present
                /\ r[1] # <<>>
                /\ q.fileType.v \in { <<"image/png">>, <<"image/jpeg">>, <<"image/jpg">>,
                                      <<"application/pdf">> }
                /\ q.fileSize.v <= 10 * 1024 * 1024
        IN  /\ iresp[r].statusCode = 400 <=> ~acceptable
            /\ (acceptable /\ q.fileSize.v = 10 * 1024 * 1024) => iresp[r].statusCode # 400
            /\ (q.fileSize.present /\ q.fileSize.v = 10 * 1024 * 1024 + 1)
                  => iresp[r].statusCode = 400

\* an intake invocation has just returned a 400 response
IntakeRejected(r) ==
    /\ iresp'[r] # iresp[r]
    /\ iresp'[r].statusCode = 400
    /\ iresp'[r].body.error \in
          { "Missing required fields: fileName, fileType, fileSize, sessionId",
            "Invalid file type. Only PNG, JPG, and PDF are allowed.",
            "File size exceeds 10MB limit." }

\* C12: an intake request rejected by the validation (a missing field, a
\* type outside the allow-list, a size above the cap) leaves every object of
\* the bucket as it was: no Metadata and no Status document is written.
C12_RejectedIntakeWritesNothing ==
    [][\A r \in JobRefs : IntakeRejected(r) => store' = store]_vars

\* a request has been rejected for its size and the job has no document
C12_Witness ==
    \E r \in JobRefs :
        /\ iresp[r] = Response(400, [error |-> "File size exceeds 10MB limit."])
        /\ store[Key(r, "metadata")] = NoDoc
        /\ store[Key(r, "status")] = NoDoc

\* a step in which an intake invocation for r returns its response
IntakeReturns(r) ==
    /\ ipc'[r] = "idle"
    /\ iresp'[r] # NoResp
    /\ \/ ipc[r] = "put_status"
       \/ ipc[r] = "idle" /\ (iresp'[r] # iresp[r] \/ ireq'[r] # ireq[r])

\* C34: when an intake invocation returns, the job's Metadata document
\* exists if and only if its Status document exists and is the initial one
\* (stage upload, progress 10); and when the response is not the 200 one,
\* the job has neither a Metadata nor a Status document.
C34_IntakeIsAtomic ==
    [][\A r \in JobRefs :
          IntakeReturns(r) =>
              /\ store'[Key(r, "metadata")] # NoDoc
                    <=> ( /\ StatusOf(store', r) # NoDoc
                          /\ StatusOf(store', r).stage = "upload"
                          /\ StatusOf(store', r).progress = 10 )
              /\ iresp'[r].statusCode # 200 =>
                    /\ store'[Key(r, "metadata")] = NoDoc
                    /\ StatusOf(store', r) = NoDoc]_vars

\* C15: a Status document that is complete or failed is not changed by any
\* later step of any handler, another run trigger for the job included.
C15_TerminalStatusIsFinal ==
    [][\A r \in JobRefs :
          (IsCompleteStatus(StatusOf(store, r)) \/ IsFailedStatus(StatusOf(store, r)))
              => StatusOf(store', r) = StatusOf(store, r)]_vars

\* C16: a Results document, once written, is not written again or changed,
\* and a run that has written one returns 200 with the Status complete.
C16_ResultsWrittenOnce ==
    [][\A r \in JobRefs :
          /\ ResultsOf(store, r) # NoDoc => ResultsOf(store', r) = ResultsOf(store, r)
          /\ ( /\ pc[r] # "idle"
               /\ pc'[r] = "idle"
               /\ \E i \in 1..Len(runw'[r]) : runw'[r][i] = <<"results">> )
             => /\ resp'[r].statusCode = 200
                /\ IsCompleteStatus(StatusOf(store', r))]_vars

\* C19: while a job has its Metadata document but no source artifact (none
\* was ever uploaded, since nothing deletes one), no run trigger has written
\* a Status document past upload for it, none has called the endpoint, and
\* none has returned success.
C19_NoRunWithoutArtifact ==
    \A r \in JobRefs :
        (store[Key(r, "metadata")] # NoDoc /\ store[Key(r, "original")] = NoDoc) =>
            /\ \A i \in 1..Len(hist[r]) : hist[r][i] = <<"upload", 10>>
            /\ trace[r] = <<>>
            /\ resp[r].statusCode \in {0, 400, 404, 500}

\* a run-trigger invocation for r starts, or returns, in this step
RunTriggerStep(r) == pc'[r] # pc[r] \/ resp'[r] # resp[r]

\* C18: a run-trigger invocation that finds no Metadata document for its
\* (session, job) returns at once and leaves the whole bucket unchanged; its
\* response is the 404 'Blueprint metadata not found' (or the 400 of a
\* request without ids, or the 500 of an S3 call that failed).
C18_RunWithoutMetadata ==
    [][\A r \in JobRefs :
          (pc[r] = "idle" /\ store[Key(r, "metadata")] = NoDoc /\ RunTriggerStep(r)) =>
              /\ pc'[r] = "idle"
              /\ store' = store
              /\ \/ resp'[r] = Response(404, ErrorBody("Blueprint metadata not found", <<>>))
                 \/ resp'[r].statusCode = 400
                 \/ resp'[r] = Response(500, ErrorBody("Internal server error",
                                                       <<"ClientError">>))]_vars

\* the run trigger has answered 404 and the job has no document
C18_Witness ==
    \E r \in JobRefs :
        /\ resp[r].statusCode = 404
        /\ \A d \in DocTypes : store[Key(r, d)] = NoDoc

\* the sum of the confidences of the first n detections, in hundredths
RECURSIVE ConfidenceSum(_, _)
ConfidenceSum(ds, n) == IF n = 0 THEN 0 ELSE ConfidenceSum(ds, n - 1) + ds[n].confidence

\* C20: the avgConfidence of a persisted Results document is 0 when it has
\* no detections, and otherwise the hundredth nearest to the mean of the
\* confidences of its detections, which are the detections the endpoint
\* returned; confidences 0.90, 0.80, 0.60 give 0.77.
C20_AvgConfidenceIsRoundedMean ==
    \A r \in JobRefs :
        LET doc == store[Key(r, "results")] IN
        doc # NoDoc =>
            LET n == Len(doc.detections)
                s == ConfidenceSum(doc.detections, n)
                a == doc.statistics.avgConfidence
            IN  /\ pc[r] = "put_complete" => doc.detections = result[r].detections
                /\ n = 0 => a = 0
                /\ n > 0 => (2 * (a * n - s) <= n /\ 2 * (s - a * n) <= n)
                /\ (n = 3 /\ s = 230) => a = 77

\* Results persisted for detections with confidences 0.90, 0.80, 0.60
C20_Witness ==
    \E r \in JobRefs :
        /\ store[Key(r, "results")] # NoDoc
        /\ Len(store[Key(r, "results")].detections) = 3
        /\ store[Key(r, "results")].statistics.avgConfidence = 77

\* the label a detection is counted under
LabelOf(det) == IF "class" \in DOMAIN det THEN det.class ELSE "unknown"

\* the sum of the values of a function with a finite domain
RECURSIVE SumOver(_, _)
SumOver(f, dom) ==
    IF dom = {} THEN 0
    ELSE LET c == CHOOSE x \in dom : TRUE IN f[c] + SumOver(f, dom \ {c})

\* C21: in a persisted Results document totalDetections is the number of
\* its detections, which are the detections the endpoint returned;
\* elementCounts has one entry for each label among them, the number of the
\* detections with that label, a detection without a class being labelled
\* "unknown"; so the counts sum to totalDetections.  Two "wall" and one
\* "door" give totalDetections = 3 and elementCounts = {wall: 2, door: 1}.
C21_CountsMatchDetections ==
    \A r \in JobRefs :
        LET doc == store[Key(r, "results")] IN
        doc # NoDoc =>
            LET ds == doc.detections
                counts == doc.statistics.elementCounts
            IN  /\ pc[r] = "put_complete" => Len(ds) = Len(result[r].detections)
                /\ doc.statistics.totalDetections = Len(ds)
                /\ DOMAIN counts = {LabelOf(ds[i]) : i \in 1..Len(ds)}
                /\ \A c \in DOMAIN counts :
                      counts[c] = Cardinality({i \in 1..Len(ds) : LabelOf(ds[i]) = c})
                /\ SumOver(counts, DOMAIN counts) = doc.statistics.totalDetections
                /\ (Len(ds) = 3 /\ \A i \in 1..3 : LabelOf(ds[i]) = <<"wall", "wall", "door">>[i])
                      => /\ doc.statistics.totalDetections = 3
                         /\ DOMAIN counts = {"wall", "door"}
                         /\ counts["wall"] = 2 /\ counts["door"] = 1

\* Results persisted for two walls and a door
C21_Witness ==
    \E r \in JobRefs :
        /\ store[Key(r, "results")] # NoDoc
        /\ store[Key(r, "results")].statistics.totalDetections = 3
        /\ DOMAIN store[Key(r, "results")].statistics.elementCounts = {"wall", "door"}

\* C23: while the response of the latest run-trigger invocation for a job
\* is a 200, its results are the Results document stored for the job and
\* the job's Status document is complete; a response with another status
\* code has no results in its body.
C23_SuccessResponseIsPersistedResults ==
    \A r \in JobRefs :
        /\ resp[r].statusCode = 200 =>
              /\ ResultsOf(store, r) # NoDoc
              /\ resp[r].body.results = ResultsOf(store, r)
              /\ IsCompleteStatus(StatusOf(store, r))
        /\ resp[r].statusCode \notin {0, 200} => "results" \notin DOMAIN resp[r].body

\* a second run of a job has returned 200 with detections in its results
C23_Witness ==
    \E r \in JobRefs :
        /\ runs[r] = 2
        /\ resp[r].statusCode = 200
        /\ resp[r].body.results.detections # <<>>

\* a Status document without its message
WithoutMessage(doc) == [f \in DOMAIN doc \ {"message"} |-> doc[f]]

\* C27: the Status document written by the except clause for ModelError and
\* the one written by the except clause for any other exception are the
\* same in every field but the message: status failed, stage failed,
\* progress 0, estimatedTimeRemaining 0; the message is the clause's own
\* prefix followed by the error text; and both clauses return a 500.
C27_FailurePathsSameShape ==
    [][\A r \in JobRefs :
          (pc[r] \in {"except_model", "except_other"} /\ pc'[r] = "idle") =>
              /\ resp'[r].statusCode = 500
              /\ Len(runw'[r]) > Len(runw[r]) =>
                    LET doc == StatusOf(store', r) IN
                    /\ WithoutMessage(doc) =
                          [kind |-> "status", blueprintId |-> r[2], status |-> "failed",
                           stage |-> "failed", progress |-> 0, estimatedTimeRemaining |-> 0]
                    /\ doc.message =
                          <<IF pc[r] = "except_model" THEN "Model inference failed: "
                            ELSE "Failed to invoke SageMaker endpoint: ">> \o exc[r].msg]_vars

\* a run that ended with the failed status has been followed by one that
\* failed on an exception other than ModelError
C27_Witness ==
    \E r \in JobRefs :
        /\ runs[r] = 2 /\ pc[r] = "idle"
        /\ hist[r] # <<>> /\ hist[r][1] = <<"failed", 0>>
        /\ StatusOf(store, r) # NoDoc
        /\ resp[r].statusCode = 500
        /\ resp[r].body.error = "Failed to invoke SageMaker endpoint"
        /\ StatusOf(store, r).message[1] = "Failed to invoke SageMaker endpoint: "

\* an error of the endpoint call that is neither a ModelError nor transient
Unclassified(o) ==
    o.out = "Exception" /\ ~TransientFailure(CallEvent(o))

\* C29: an endpoint call that fails with an unclassified error is the last
\* event of the invoker's call: no sleep and no other attempt follows, and
\* the error is raised to the run trigger; when that run returns, the job's
\* Status document is failed / failed / 0 and its message contains the
\* error text as raised.
C29_UnclassifiedErrorFailsRun ==
    [][\A r \in JobRefs :
          /\ ( /\ pc[r] = "invoke"
               /\ Len(trace'[r]) > Len(trace[r])
               /\ Unclassified(trace'[r][Len(trace[r]) + 1].outcome) )
             => /\ Len(trace'[r]) = Len(trace[r]) + 1
                /\ pc'[r] = "except_other"
                /\ exc'[r] = Exc("Exception", trace'[r][Len(trace'[r])].outcome.msg)
          /\ ( /\ pc[r] = "except_other"
               /\ trace[r] # <<>>
               /\ Unclassified(trace[r][Len(trace[r])].outcome)
               /\ pc'[r] = "idle" )
             => /\ IsFailedStatus(StatusOf(store', r))
                /\ Contains(StatusOf(store', r).message, exc[r].msg)]_vars

\* C31: while a run trigger invocation has built its payload, the payload's
\* confidence is 0.5 when the request body has no confidence field, and is
\* the value of that field as the caller sent it otherwise, whether or not
\* it lies in [0, 1].
C31_PayloadConfidenceIsCallers ==
    \A r \in JobRefs :
        payload[r] # None =>
            /\ body[r] # None
            /\ "confidence" \notin DOMAIN body[r] => payload[r].confidence = 50
            /\ "confidence" \in DOMAIN body[r] =>
                   payload[r].confidence = body[r].confidence

\* a payload has been built from a request whose confidence is 1.5, and the
\* endpoint has been called with it
C31_Witness ==
    \E r \in JobRefs :
        /\ payload[r] # None /\ body[r] # None
        /\ "confidence" \in DOMAIN body[r] /\ body[r].confidence = 150
        /\ payload[r].confidence = 150
        /\ trace[r] # <<>>

----------------------------------------------------------------------------
(* Termination of the run trigger, checked under SpecTermination *)

\* C24: a run-trigger invocation makes at most max_retries endpoint calls
\* and at most max_retries - 1 backoff sleeps (none when max_retries is 0),
\* and every invocation that has begun returns a response to its caller:
\* the 200, or a 500 built by one of its except clauses.
C24_RunTriggerTerminates ==
    /\ [](\A r \in JobRefs :
            /\ NumCalls(trace[r]) <= MAX_RETRIES
            /\ MAX_RETRIES >= 1 => Cardinality(Sleeps(trace[r])) <= MAX_RETRIES - 1
            /\ MAX_RETRIES = 0 => trace[r] = <<>>)
    /\ \A r \in JobRefs :
          (pc[r] # "idle") ~> (pc[r] = "idle" /\ resp[r].statusCode \in {200, 500})

\* an invocation has used every attempt and every backoff it is allowed,
\* and has returned
C24_Witness ==
    \E r \in JobRefs :
        /\ MAX_RETRIES = 2
        /\ pc[r] = "idle"
        /\ resp[r] = Response(500, ErrorBody("Failed to invoke SageMaker endpoint",
                                             <<"Read", "Timeout">>))
        /\ runs[r] = 2

----------------------------------------------------------------------------
(* Properties of a polling client, checked under SpecReaders *)

\* C5: once a run has returned 200, the status responses a client got
\* since that run began carry a progress among 10, 25, 50, 75, 100, and of
\* two successive ones the later progress is not the smaller.
C5_ProgressNonDecreasing ==
    \A r \in JobRefs : RunSucceeded(r) =>
        LET w == seen[r[2]] IN
        \A i \in 1..Len(w) : w[i].statusCode = 200 =>
            /\ w[i].progress \in {10, 25, 50, 75, 100}
            /\ (i > 1 /\ w[i - 1].statusCode = 200) => w[i - 1].progress <= w[i].progress

----------------------------------------------------------------------------
(* Properties of the query handlers over any bucket, checked under SpecQueries *)

\* C11: a status query by job id that S3 answers returns the job's Status
\* document as stored when the job has one, the synthesized completed /
\* complete / 100 status when the job has Results but no Status document,
\* and 404 only when the job has neither.  (The bucket does not change
\* under SpecQueries, so every response in `seen` was computed from `store`.)
C11_StatusQueryByJob ==
    \A r \in JobRefs : \A i \in 1..Len(seen[r[2]]) :
        LET o == seen[r[2]][i]
            status == store[Key(r, "status")]
            results == store[Key(r, "results")]
        IN  o.statusCode # 500 =>
              /\ status # NoDoc =>
                    /\ o.statusCode = 200
                    /\ o.key = Key(r, "status")
                    /\ <<o.status, o.stage, o.progress>> =
                          <<status.status, status.stage, status.progress>>
              /\ (status = NoDoc /\ results # NoDoc) =>
                    /\ o.statusCode = 200
                    /\ <<o.status, o.stage, o.progress>> = <<"completed", "complete", 100>>
              /\ o.statusCode = 404 => (status = NoDoc /\ results = NoDoc)

\* C33: whatever the bucket holds, a document that a status query or a
\* results query for id J returns was read from a key whose job-id segment
\* is J: the key of a returned Status document, the Results key from which
\* a status is synthesized, and the key of a returned Results document.
\* (The bucket does not change under SpecQueries.)
C33_LookupReturnsQueriedJob ==
    \A id \in QueryIds :
        /\ \A i \in 1..Len(seen[id]) :
              seen[id][i].statusCode = 200 =>
                  IF seen[id][i].key # NoKey
                  THEN seen[id][i].key[2] = id
                  ELSE FindKey(store, id, "results")[2] = id
        /\ rresp[id].statusCode = 200 =>
              /\ FindKey(store, id, "results")[2] = id
              /\ rresp[id].body = store[FindKey(store, id, "results")]

----------------------------------------------------------------------------
(* Properties of the queries in a used bucket, checked under SpecIntake and
   SpecBucket *)

\* C13: after a successful intake, with nothing else done to the job, a
\* status query with the returned blueprint id that S3 answers returns the
\* job's Status document, stage upload, progress 10, whatever the bucket
\* held before.
C13_StatusQueryAfterIntake ==
    [][\A r \in JobRefs :
          ( /\ iresp[r].statusCode = 200
            /\ ipc[r] = "idle"
            /\ runs[r] = 0
            /\ seen'[r[2]] # seen[r[2]] )
          => LET o == seen'[r[2]][Len(seen'[r[2]])] IN
             o.statusCode # 500 =>
                /\ o.statusCode = 200
                /\ o.key = Key(r, "status")
                /\ o.stage = "upload"
                /\ o.progress = 10]_vars

\* C14: after a run trigger has returned 200 for a job, a results query
\* with the blueprint id that S3 answers returns 200 with the Results
\* document stored for the job, which is the one in the run's response,
\* whatever else the bucket holds.
C14_ResultsQueryAfterRun ==
    [][\A r \in JobRefs :
          (RunSucceeded(r) /\ rresp'[r[2]] # rresp[r[2]])
          => LET q == rresp'[r[2]] IN
             q.statusCode # 500 =>
                /\ q = Response(200, store[Key(r, "results")])
                /\ q.body = resp[r].body.results]_vars

----------------------------------------------------------------------------
(* Isolation of jobs, checked under SpecOtherJob *)

\* the three documents of a job
JobDocKeys(r) == { Key(r, "metadata"), Key(r, "status"), Key(r, "results") }

\* a step of intake or of the run trigger for r
HandlerStep(r) ==
    \/ ipc'[r] # ipc[r] \/ iresp'[r] # iresp[r]
    \/ pc'[r] # pc[r] \/ resp'[r] # resp[r]

\* C25: a step of intake or of the run trigger for job (s, j) changes no
\* object of the bucket other than the Metadata, Status and Results
\* documents of (s, j), so the documents of every other job stay as they
\* were; and it reads no other job's document: the run trigger goes on only
\* when (s, j) has its own Metadata document, and the artifact it sends to
\* the endpoint is the one that document names.
C25_JobsAreIsolated ==
    [][\A r \in JobRefs : HandlerStep(r) =>
          /\ \A k \in DOMAIN store \ JobDocKeys(r) : store'[k] = store[k]
          /\ (pc[r] = "idle" /\ pc'[r] # "idle") =>
                /\ store[Key(r, "metadata")] # NoDoc
                /\ payload'[r].s3_uri = store[Key(r, "metadata")].s3Key
                /\ payload'[r].s3_uri = Key(r, "original")]_vars

\* a run for the job has returned 200 in a bucket where the other job has
\* the documents of a finished run, as they were
C25_Witness ==
    \E r \in JobRefs :
        /\ RunSucceeded(r)
        /\ store[Key(OtherJob, "status")] = StatusDoc(J0, "complete", <<>>)
        /\ store[Key(OtherJob, "results")] # NoDoc
        /\ store[Key(OtherJob, "metadata")] # NoDoc

----------------------------------------------------------------------------
(* Properties of a polling client in a shared bucket, checked under
   SpecSharedBucket *)

\* C22: every Status document a status query returns is one whole document
\* that intake or the run trigger wrote: its stage, status and progress are
\* those of one write to the key it was read from (a write of this job's
\* history when the key is the job's own), and they are one of
\* (upload, processing, 10), (preprocessing, processing, 25),
\* (inference, processing, 50), (postprocess, processing, 75),
\* (complete, completed, 100), (failed, failed, 0).
C22_ReadersSeeWholeDocuments ==
    \A r \in JobRefs : \A i \in 1..Len(seen[r[2]]) :
        LET o == seen[r[2]][i] IN
        o.statusCode = 200 =>
            /\ o.key # NoKey
            /\ IF o.key = Key(r, "status")
               THEN \E j \in 1..Len(hist[r]) : hist[r][j] = <<o.stage, o.progress>>
               ELSE <<o.stage, o.status, o.progress>> =
                       <<store[o.key].stage, store[o.key].status, store[o.key].progress>>
            /\ <<o.stage, o.status, o.progress>> \in
                  { <<"upload", "processing", 10>>, <<"preprocessing", "processing", 25>>,
                    <<"inference", "processing", 50>>, <<"postprocess", "processing", 75>>,
                    <<"complete", "completed", 100>>, <<"failed", "failed", 0>> }

\* a reader got the job's status between two writes of a run, and again
\* after the run's last write
C22_Witness ==
    \E r \in JobRefs :
        /\ Len(seen[r[2]]) = 2
        /\ seen[r[2]][1].key = Key(r, "status")
        /\ seen[r[2]][1].stage = "postprocess"
        /\ seen[r[2]][2].stage = "complete"
        /\ pc[r] = "idle"

\* C28: from the write of the inference(50) status until the invoker
\* returns or raises, whatever the attempts and backoff sleeps in between,
\* no step changes the job's Status document, and every status query for
\* the job that S3 answers returns stage inference, progress 50.
C28_RetriesInvisibleToStatus ==
    [][\A r \in JobRefs : pc[r] = "invoke" =>
          /\ StatusOf(store', r) = StatusOf(store, r)
          /\ StatusOf(store, r).stage = "inference"
          /\ seen'[r[2]] # seen[r[2]] =>
                LET o == seen'[r[2]][Len(seen'[r[2]])] IN
                o.statusCode # 500 =>
                    /\ o.statusCode = 200
                    /\ o.stage = "inference"
                    /\ o.progress = 50]_vars

----------------------------------------------------------------------------
(* Properties of the whole system, checked under SpecSystem *)

\* C17: the only step that changes a job's Metadata document is the
\* metadata write of intake, which creates it: no step of the run trigger,
\* of the status query or of the results query writes, overwrites or
\* deletes it.
C17_MetadataWrittenOnlyByIntake ==
    [][\A r \in JobRefs :
          store'[Key(r, "metadata")] # store[Key(r, "metadata")] =>
              /\ store[Key(r, "metadata")] = NoDoc
              /\ ipc[r] = "idle" /\ ipc'[r] = "put_status"
              /\ pc'[r] = pc[r] /\ resp'[r] = resp[r] /\ runw'[r] = runw[r]
              /\ seen' = seen /\ rresp' = rresp]_vars

\* a run has ended and both queries have answered, the Metadata document
\* being the one intake wrote
C17_Witness ==
    \E r \in JobRefs :
        /\ store[Key(r, "metadata")] # NoDoc
        /\ store[Key(r, "metadata")].s3Key = Key(r, "original")
        /\ runs[r] = 1 /\ pc[r] = "idle" /\ resp[r].statusCode = 200
        /\ seen[r[2]] # <<>>
        /\ rresp[r[2]].statusCode = 200

\* a 200 observation of the status query that shows the job complete
SawComplete(o) ==
    o.statusCode = 200 /\ o.status = "completed" /\ o.progress = 100

\* C32: in every state, a job whose stored Status document has status
\* completed and progress 100 has a Results document; a Results document,
\* once stored, is never removed; and so, whenever a status query has shown
\* the job complete, a results lookup that reads the bucket finds the
\* job's Results document and does not answer not-found.
C32_CompleteImpliesResults ==
    /\ [](\A r \in JobRefs :
            /\ ( /\ StatusOf(store, r) # NoDoc
                 /\ StatusOf(store, r).status = "completed"
                 /\ StatusOf(store, r).progress = 100 )
               => ResultsOf(store, r) # NoDoc
            /\ (\E i \in 1..Len(seen[r[2]]) : SawComplete(seen[r[2]][i]))
               => /\ results_response(store, r[2]).statusCode = 200
                  /\ results_response(store, r[2]).body = ResultsOf(store, r))
    /\ [][\A r \in JobRefs :
            /\ ResultsOf(store, r) # NoDoc => ResultsOf(store', r) # NoDoc
            /\ ( /\ \E i \in 1..Len(seen[r[2]]) : SawComplete(seen[r[2]][i])
                 /\ rresp'[r[2]] # rresp[r[2]] )
               => rresp'[r[2]].statusCode # 404]_vars

\* the run has written complete, a status query has shown it, and a results
\* query made after that has answered with the job's Results document
C32_Witness ==
    \E r \in JobRefs :
        /\ IsCompleteStatus(StatusOf(store, r))
        /\ ResultsOf(store, r) # NoDoc
        /\ seen[r[2]] # <<>>
        /\ SawComplete(seen[r[2]][Len(seen[r[2]])])
        /\ seen[r[2]][Len(seen[r[2]])].key = Key(r, "status")
        /\ rresp[r[2]].statusCode = 200
        /\ rresp[r[2]].body = ResultsOf(store, r)

----------------------------------------------------------------------------
(* Properties of the two queries beside the job lifecycle, checked under
   SpecQueryPaths *)

\* C26: a step in which the status query or the results query answers, on
\* any of its paths (document found, status synthesized, not found, S3
\* error), changes no object of the bucket; a change of a job's Status or
\* Results document is a step of the run trigger for the job when one is
\* running, and of intake otherwise, in which no query answers.
C26_QueriesAreReadOnly ==
    [][/\ (seen' # seen \/ rresp' # rresp) => store' = store
       /\ \A r \in JobRefs :
             (\E d \in {"status", "results"} : store'[Key(r, d)] # store[Key(r, d)]) =>
                /\ rresp' = rresp
                /\ seen'[r[2]] = seen[r[2]]
                /\ IF pc[r] # "idle"
                   THEN pc'[r] # pc[r] /\ Len(runw'[r]) = Len(runw[r]) + 1
                   ELSE ipc[r] = "put_status" /\ ipc'[r] = "idle"]_vars

\* a status query has answered with the synthesized status and a results
\* query with the Results document, and the job still has no Status document
C26_Witness ==
    \E r \in JobRefs :
        /\ store[Key(r, "status")] = NoDoc
        /\ store[Key(r, "results")] # NoDoc
        /\ rresp[r[2]] = Response(200, store[Key(r, "results")])
        /\ \E i \in 1..Len(seen[r[2]]) :
              /\ seen[r[2]][i].statusCode = 200
              /\ seen[r[2]][i].key = NoKey
              /\ seen[r[2]][i].stage = "complete"


====
